---- MODULE Spec2Model ----
(***************************************************************************)
(* SatoriPersonalizer (personalizer_satori.go): the per-context cache of   *)
(* Satori flags and live events, the background sweep that evicts entries  *)
(* of finished contexts, and GetValue's merge of flag and live-event       *)
(* payloads into a system's config.                                        *)
(***************************************************************************)
EXTENDS Naturals, Sequences, FiniteSets, TLC

\* ------------------------------------------------------------------ bounds
\* Calls the first request goroutine makes (the second makes one fewer).
MaxCalls == 2

Threads == {"t1", "t2"}
Scopes == {"s1", "s2"}
Users == {"u1", "u2"}

\* ------------------------------------------------------------ system types
KnownTypes ==
  {"Achievements", "Base", "Economy", "Energy", "Inventory", "Leaderboards",
   "Teams", "Tutorials", "Unlockables", "Stats", "EventLeaderboards",
   "Progression", "Incentives"}

\* The system types the callers of the model pass to GetValue.
CallTypes == {"Achievements", "EventLeaderboards", "Economy", "Unknown"}

allFlagNames ==
  <<"Hiro-Achievements", "Hiro-Base", "Hiro-Economy", "Hiro-Energy",
    "Hiro-Inventory", "Hiro-Leaderboards", "Hiro-Teams", "Hiro-Tutorials",
    "Hiro-Unlockables", "Hiro-Stats", "Hiro-Event-Leaderboards",
    "Hiro-Progression", "Hiro-Incentives">>

\* A switch whose default case falls through to a flag name.
FlagNameOfFallThrough(T) ==
  IF T = "Achievements" THEN "Hiro-Achievements" ELSE "Hiro-Base"

\* The switch at the head of GetValue; "" stands for the default branch.
FlagNameOf(T) ==
  CASE T = "Achievements" -> "Hiro-Achievements"
    [] T = "Base" -> "Hiro-Base"
    [] T = "Economy" -> "Hiro-Economy"
    [] T = "Energy" -> "Hiro-Energy"
    [] T = "Inventory" -> "Hiro-Inventory"
    [] T = "Leaderboards" -> "Hiro-Leaderboards"
    [] T = "Teams" -> "Hiro-Teams"
    [] T = "Tutorials" -> "Hiro-Tutorials"
    [] T = "Unlockables" -> "Hiro-Unlockables"
    [] T = "Stats" -> "Hiro-Stats"
    [] T = "EventLeaderboards" -> "Hiro-Event-Leaderboards"
    [] T = "Progression" -> "Hiro-Progression"
    [] T = "Incentives" -> "Hiro-Incentives"
    [] OTHER -> ""

\* Live events taken for every system type.
NeedsLiveAlways(T) == TRUE

\* s == SystemTypeEventLeaderboards || s == SystemTypeAchievements
NeedsLiveEvents(T) == T = "EventLeaderboards" \/ T = "Achievements"

\* ------------------------------------------------------------------ errors
\* An error is its message, a sequence of fragments; nil is the empty one.
NilErr == <<>>
ErrNotFound == <<"satori:", "404 status code", "user not found">>
ErrUnavailable == <<"satori:", "503 status code">>
ErrUnknownField == <<"json: unknown field">>
ErrSyntax == <<"json: invalid character">>
ErrUnknownSystem == <<"hiro system type unknown">>

\* strings.Contains(err.Error(), fragment)
Contains(e, fragment) == \E i \in 1..Len(e) : e[i] = fragment

\* Both remote-error branches: 404 gives (nil, nil), anything else (nil, err).
RemoteFailureSwallow(e) == NilErr

RemoteFailure(e) == IF Contains(e, "404 status code") THEN NilErr ELSE e

\* ------------------------------------------------------- configs and JSON
\* A config object: the fields of the system's schema, each with a value.
\* A JSON payload: whether the text is well-formed JSON, and the members of
\* its object in the order of the text.
NilConfig == [nil |-> TRUE, type |-> "", val |-> <<>>]

Schema(T) ==
  CASE T = "Achievements" -> {"x", "y"}
    [] T = "EventLeaderboards" -> {"x", "z"}
    [] OTHER -> {"x"}

\* system.GetConfig()
GetConfig(T) == [nil |-> FALSE, type |-> T, val |-> [f \in Schema(T) |-> 1]]

Obj(members) == [syntaxOk |-> TRUE, members |-> members]
BadJson == [syntaxOk |-> FALSE, members |-> <<>>]

RECURSIVE SetMembers(_, _)
SetMembers(val, members) ==
  IF members = <<>> THEN val
  ELSE LET m == Head(members)
           v == IF m[1] \in DOMAIN val THEN [val EXCEPT ![m[1]] = m[2]] ELSE val
       IN SetMembers(v, Tail(members))

\* decoder.DisallowUnknownFields(); decoder.Decode(config): the text is
\* scanned first, so malformed JSON changes nothing; the members are then
\* stored one by one, an unknown member is skipped and reported once the
\* object has been read, with the known members stored.
Decode(config, payload) ==
  IF ~payload.syntaxOk THEN [config |-> config, err |-> ErrSyntax]
  ELSE [config |-> [config EXCEPT !.val = SetMembers(@, payload.members)],
        err |-> IF \E i \in 1..Len(payload.members) :
                     payload.members[i][1] \notin DOMAIN config.val
                THEN ErrUnknownField ELSE NilErr]

\* ------------------------------------------------------------- the merge
\* The locals of GetValue that the merge works on: config, found, and the
\* error of an early "return nil, err" (NilErr while the call goes on).
NoMerge == [config |-> NilConfig, found |-> FALSE, err |-> NilErr]

FlagDecodeIgnoreError(config, value, found) ==
  LET d == Decode(config, value)
  IN [config |-> d.config, found |-> TRUE, err |-> NilErr]

\* config = system.GetConfig(); Decode(flag value); on error return nil, err;
\* found = true.
FlagDecode(config, value, found) ==
  LET d == Decode(config, value)
  IN IF d.err # NilErr
     THEN [config |-> NilConfig, found |-> found, err |-> d.err]
     ELSE [config |-> d.config, found |-> TRUE, err |-> NilErr]

\* The noCache branch's flag step: only flagList.Flags[0] is looked at.
NoCacheFlagMerge(T, flagList) ==
  IF Len(flagList) >= 1
  THEN FlagDecode(GetConfig(T), flagList[1].value, FALSE)
  ELSE NoMerge

\* The cached branch's flag loop over cacheEntry.flags.Flags (found = false
\* before it).
RECURSIVE CachedFlagLoop(_, _, _)
CachedFlagLoop(st, T, flags) ==
  IF flags = <<>> \/ st.err # NilErr THEN st
  ELSE LET flag == Head(flags)
       IN IF flag.name # FlagNameOf(T) THEN CachedFlagLoop(st, T, Tail(flags))
          ELSE CachedFlagLoop(FlagDecode(GetConfig(T), flag.value, st.found),
                              T, Tail(flags))

CachedFlagMerge(T, flags) == CachedFlagLoop(NoMerge, T, flags)

RECURSIVE LiveEventLoopAbort(_, _)
LiveEventLoopAbort(st, events) ==
  IF events = <<>> THEN st
  ELSE LET d == Decode(st.config, Head(events).value)
       IN IF d.err # NilErr
          THEN [config |-> NilConfig, found |-> st.found, err |-> d.err]
          ELSE LiveEventLoopAbort([st EXCEPT !.config = d.config, !.found = TRUE],
                                  Tail(events))

\* for _, liveEvent := range liveEventsList.LiveEvents: decode each value
\* into the same config; a failed decode is skipped (continue), a successful
\* one sets found.
RECURSIVE LiveEventLoop(_, _)
LiveEventLoop(st, events) ==
  IF events = <<>> THEN st
  ELSE LET d == Decode(st.config, Head(events).value)
       IN IF d.err # NilErr
          THEN LiveEventLoop([st EXCEPT !.config = d.config], Tail(events))
          ELSE LiveEventLoop([st EXCEPT !.config = d.config, !.found = TRUE],
                             Tail(events))

\* if len(liveEventsList.LiveEvents) > 0 { if config == nil { config =
\* system.GetConfig() }; for ... }
LiveEventMerge(st, T, events) ==
  IF Len(events) > 0
  THEN LiveEventLoop(
         [st EXCEPT !.config = IF st.config.nil THEN GetConfig(T) ELSE @],
         events)
  ELSE st

FinishAlwaysConfig(st) ==
  IF st.err # NilErr THEN [config |-> NilConfig, err |-> st.err]
  ELSE [config |-> st.config, err |-> NilErr]

\* if !found { return nil, nil }; return config, nil
Finish(st) ==
  IF st.err # NilErr THEN [config |-> NilConfig, err |-> st.err]
  ELSE IF ~st.found THEN [config |-> NilConfig, err |-> NilErr]
  ELSE [config |-> st.config, err |-> NilErr]

\* ------------------------------------------------------- the remote source
Flag(name, members) == [name |-> name, value |-> Obj(members)]
Event(members) == [value |-> Obj(members)]

Range(seq) == {seq[i] : i \in 1..Len(seq)}

IsNamed(names, flag) == flag.name \in names

\* What Satori holds for one user: the outcome of each of the two calls.
RemoteOf(fe, flags, le, live) ==
  [flagsErr |-> fe, flags |-> flags, liveErr |-> le, live |-> live]

RemoteErrs == {NilErr, ErrNotFound, ErrUnavailable}

\* ------------------------------------------------------------------- state
VARIABLES
  noCache,      \* SatoriPersonalizer.noCache
  remote,       \* what Satori answers for each user
  req,          \* each request goroutine's ctx and userID
  budget,       \* how many GetValue calls each goroutine makes
  active,       \* active[s]: ctx s is not done (s.Err() == nil)
  ctxDone,      \* the context given to NewSatoriPersonalizer is done
  cache,        \* SatoriPersonalizer.cache: ctx -> entry pointer
  heap,         \* the SatoriPersonalizerCache objects that are referenced
  rw,           \* SatoriPersonalizer.cacheMutex
  sweep,        \* where the sweep goroutine is
  pc,           \* where each GetValue call is
  loc,          \* the locals of each GetValue call
  log,          \* the system types each goroutine has called GetValue with
  result,       \* what each goroutine's last GetValue call returned
  flagFetches,  \* FlagsList calls issued so far with each ctx
  swept         \* the ctxs that were done when a sweep pass ran

vars ==
  <<noCache, remote, req, budget, active, ctxDone, cache, heap, rw, sweep,
    pc, loc, log, result, flagFetches, swept>>

NoEntry == <<>>
\* An unset atomic pointer. A set one records, besides the list, the user it
\* was fetched for (of) and the call that stored it (by).
NoLive == [set |-> FALSE, events |-> <<>>, of |-> "", by |-> <<>>]
NoLocals ==
  [type |-> "", entry |-> NoEntry, flagList |-> <<>>, live |-> NoLive,
   merge |-> NoMerge]
NoResult ==
  [called |-> FALSE, type |-> "", config |-> NilConfig, err |-> NilErr,
   src |-> {}, via |-> ""]

Scope(t) == req[t].scope
User(t) == req[t].user

\* nk.GetSatori().FlagsList(ctx, userID, names...): the user's flags of
\* these names.
FlagsList(u, names) == SelectSeq(remote[u].flags, LAMBDA f : IsNamed(names, f))

\* The entry objects some goroutine or the map still points to.
Referenced(c, l) ==
  ({c[s] : s \in DOMAIN c} \cup {l[t].entry : t \in Threads}) \ {NoEntry}

Collect(h, c, l) == [e \in DOMAIN h \cap Referenced(c, l) |-> h[e]]

\* A return statement of GetValue. The result also records the users whose
\* records the returned config was merged from (src), and the remote call
\* whose failure ended the call (via).
Return(t, config, err, src, via) ==
  /\ pc' = [pc EXCEPT ![t] = "idle"]
  /\ loc' = [loc EXCEPT ![t] = NoLocals]
  /\ result' = [result EXCEPT ![t] =
       [called |-> TRUE, type |-> loc[t].type, config |-> config, err |-> err,
        src |-> IF config.nil THEN {} ELSE src, via |-> via]]
  /\ heap' = Collect(heap, cache, loc')

\* The return in the error branch of a remote call.
ReturnRemoteFailure(t, e, via) == Return(t, NilConfig, RemoteFailure(e), {}, via)

\* ------------------------------------------------------- GetValue, start
BranchAlwaysCached(nc) == "rlock"

\* if p.noCache { ... } else { ... }
Branch(nc) == IF nc THEN "ncFlags" ELSE "rlock"

\* The switch on system.GetType(), then the branch on p.noCache.
Call(t, T) ==
  /\ pc[t] = "idle"
  /\ Len(log[t]) < budget[t]
  /\ log' = [log EXCEPT ![t] = Append(@, T)]
  /\ IF FlagNameOf(T) = ""
     THEN /\ result' = [result EXCEPT ![t] =
                [called |-> TRUE, type |-> T, config |-> NilConfig,
                 err |-> ErrUnknownSystem, src |-> {}, via |-> ""]]
          /\ UNCHANGED <<pc, loc>>
     ELSE /\ pc' = [pc EXCEPT ![t] = Branch(noCache)]
          /\ loc' = [loc EXCEPT ![t] = [NoLocals EXCEPT !.type = T]]
          /\ UNCHANGED result
  /\ UNCHANGED <<noCache, remote, req, budget, active, ctxDone, cache, heap,
                 rw, sweep, flagFetches, swept>>

\* ---------------------------------------------------- the noCache branch
\* FlagsList(ctx, userID, flagName), the decode of Flags[0], and the return
\* of a system type that takes no live events.
NcFlags(t) ==
  /\ pc[t] = "ncFlags"
  /\ flagFetches' = [flagFetches EXCEPT ![Scope(t)] = @ + 1]
  /\ LET T == loc[t].type
         fe == remote[User(t)].flagsErr
         st == NoCacheFlagMerge(T, FlagsList(User(t), {FlagNameOf(T)}))
     IN IF fe # NilErr THEN ReturnRemoteFailure(t, fe, "flags")
        ELSE IF st.err # NilErr THEN Return(t, NilConfig, st.err, {}, "")
        ELSE IF NeedsLiveEvents(T)
        THEN /\ pc' = [pc EXCEPT ![t] = "ncLive"]
             /\ loc' = [loc EXCEPT ![t].merge = st]
             /\ UNCHANGED <<result, heap>>
        ELSE Return(t, Finish(st).config, Finish(st).err, {User(t)}, "")
  /\ UNCHANGED <<noCache, remote, req, budget, active, ctxDone, cache, rw,
                 sweep, log, swept>>

\* LiveEventsList(ctx, userID), the live-event merge and the final return.
NcLive(t) ==
  /\ pc[t] = "ncLive"
  /\ LET T == loc[t].type
         le == remote[User(t)].liveErr
         st == LiveEventMerge(loc[t].merge, T, remote[User(t)].live)
     IN IF le # NilErr THEN ReturnRemoteFailure(t, le, "live")
        ELSE Return(t, Finish(st).config, Finish(st).err, {User(t)}, "")
  /\ UNCHANGED <<noCache, remote, req, budget, active, ctxDone, cache, rw,
                 sweep, log, flagFetches, swept>>

\* ----------------------------------------------------- the cached branch
\* p.cacheMutex.RLock()
RLock(t) ==
  /\ pc[t] = "rlock"
  /\ rw.writer = "none"
  /\ rw' = [rw EXCEPT !.readers = @ \cup {t}]
  /\ pc' = [pc EXCEPT ![t] = "lookup"]
  /\ UNCHANGED <<noCache, remote, req, budget, active, ctxDone, cache, heap,
                 sweep, loc, log, result, flagFetches, swept>>

FoundNever(c, s) == FALSE

\* found of "cacheEntry, found = p.cache[ctx]"
Found(c, s) == s \in DOMAIN c

\* The lookup without p.cacheMutex.RUnlock().
LookupKeepRLock(t) ==
  /\ pc[t] = "lookup"
  /\ IF Found(cache, Scope(t))
     THEN /\ loc' = [loc EXCEPT ![t].entry = cache[Scope(t)]]
          /\ pc' = [pc EXCEPT ![t] = "check"]
     ELSE /\ pc' = [pc EXCEPT ![t] = "flags"]
          /\ UNCHANGED loc
  /\ UNCHANGED <<noCache, remote, req, budget, active, ctxDone, cache, heap,
                 rw, sweep, log, result, flagFetches, swept>>

\* cacheEntry, found = p.cache[ctx]; p.cacheMutex.RUnlock()
Lookup(t) ==
  /\ pc[t] = "lookup"
  /\ rw' = [rw EXCEPT !.readers = @ \ {t}]
  /\ IF Found(cache, Scope(t))
     THEN /\ loc' = [loc EXCEPT ![t].entry = cache[Scope(t)]]
          /\ pc' = [pc EXCEPT ![t] = "check"]
     ELSE /\ pc' = [pc EXCEPT ![t] = "flags"]
          /\ UNCHANGED loc
  /\ UNCHANGED <<noCache, remote, req, budget, active, ctxDone, cache, heap,
                 sweep, log, result, flagFetches, swept>>

\* FlagsList(ctx, userID, allFlagNames...) and its error branches.
FetchFlags(t) ==
  /\ pc[t] = "flags"
  /\ flagFetches' = [flagFetches EXCEPT ![Scope(t)] = @ + 1]
  /\ LET fe == remote[User(t)].flagsErr
     IN IF fe # NilErr THEN ReturnRemoteFailure(t, fe, "flags")
        ELSE /\ loc' = [loc EXCEPT ![t].flagList =
                          FlagsList(User(t), Range(allFlagNames))]
             /\ pc' = [pc EXCEPT ![t] =
                  IF NeedsLiveEvents(loc[t].type) THEN "liveEager" ELSE "lock"]
             /\ UNCHANGED <<result, heap>>
  /\ UNCHANGED <<noCache, remote, req, budget, active, ctxDone, cache, rw,
                 sweep, log, swept>>

\* An eager live-event fetch whose failure still stores the fetched flags
\* as the entry of the ctx.
FetchLiveEagerKeepFlags(t) ==
  /\ pc[t] = "liveEager"
  /\ LET le == remote[User(t)].liveErr
         e == <<t, Len(log[t])>>
     IN IF le # NilErr
        THEN /\ cache' = [s \in DOMAIN cache \cup {Scope(t)} |->
                            IF s = Scope(t) THEN e ELSE cache[s]]
             /\ heap' = [x \in DOMAIN heap \cup {e} |->
                           IF x = e
                           THEN [flags |-> loc[t].flagList, of |-> User(t),
                                 live |-> NoLive]
                           ELSE heap[x]]
             /\ pc' = [pc EXCEPT ![t] = "idle"]
             /\ loc' = [loc EXCEPT ![t] = NoLocals]
             /\ result' = [result EXCEPT ![t] =
                  [called |-> TRUE, type |-> loc[t].type, config |-> NilConfig,
                   err |-> RemoteFailure(le), src |-> {}, via |-> "live"]]
        ELSE /\ loc' = [loc EXCEPT ![t].live =
                          [set |-> TRUE, events |-> remote[User(t)].live,
                           of |-> User(t), by |-> <<t, Len(log[t])>>]]
             /\ pc' = [pc EXCEPT ![t] = "lock"]
             /\ UNCHANGED <<result, heap, cache>>
  /\ UNCHANGED <<noCache, remote, req, budget, active, ctxDone, rw,
                 sweep, log, flagFetches, swept>>

\* The LiveEventsList call made before the entry is built.
FetchLiveEager(t) ==
  /\ pc[t] = "liveEager"
  /\ LET le == remote[User(t)].liveErr
     IN IF le # NilErr THEN ReturnRemoteFailure(t, le, "live")
        ELSE /\ loc' = [loc EXCEPT ![t].live =
                          [set |-> TRUE, events |-> remote[User(t)].live,
                           of |-> User(t), by |-> <<t, Len(log[t])>>]]
             /\ pc' = [pc EXCEPT ![t] = "lock"]
             /\ UNCHANGED <<result, heap>>
  /\ UNCHANGED <<noCache, remote, req, budget, active, ctxDone, cache, rw,
                 sweep, log, flagFetches, swept>>

\* p.cacheMutex.Lock()
Lock(t) ==
  /\ pc[t] = "lock"
  /\ rw.writer = "none"
  /\ rw.readers = {}
  /\ rw' = [rw EXCEPT !.writer = t]
  /\ pc' = [pc EXCEPT ![t] = "insert"]
  /\ UNCHANGED <<noCache, remote, req, budget, active, ctxDone, cache, heap,
                 sweep, loc, log, result, flagFetches, swept>>

\* The entry a call builds: its flags, and the live events when they were
\* fetched (liveEvents.Store), else an empty atomic pointer.
NewEntry(t) ==
  [flags |-> loc[t].flagList, of |-> User(t), live |-> loc[t].live]

\* An insert that keeps the entry the map already has for the ctx.
InsertIfAbsent(t) ==
  /\ pc[t] = "insert"
  /\ LET e == <<t, Len(log[t])>>
     IN /\ cache' = [s \in DOMAIN cache \cup {Scope(t)} |->
                       IF s \in DOMAIN cache THEN cache[s] ELSE e]
        /\ loc' = [loc EXCEPT ![t] =
                     [NoLocals EXCEPT !.type = loc[t].type, !.entry = e]]
        /\ heap' = Collect([x \in DOMAIN heap \cup {e} |->
                              IF x = e THEN NewEntry(t) ELSE heap[x]],
                           cache', loc')
  /\ rw' = [rw EXCEPT !.writer = "none"]
  /\ pc' = [pc EXCEPT ![t] = "check"]
  /\ UNCHANGED <<noCache, remote, req, budget, active, ctxDone, sweep, log,
                 result, flagFetches, swept>>

\* p.cache[ctx] = cacheEntry; p.cacheMutex.Unlock()
Insert(t) ==
  /\ pc[t] = "insert"
  /\ LET e == <<t, Len(log[t])>>
     IN /\ cache' = [s \in DOMAIN cache \cup {Scope(t)} |->
                       IF s = Scope(t) THEN e ELSE cache[s]]
        /\ loc' = [loc EXCEPT ![t] =
                     [NoLocals EXCEPT !.type = loc[t].type, !.entry = e]]
        /\ heap' = Collect([x \in DOMAIN heap \cup {e} |->
                              IF x = e THEN NewEntry(t) ELSE heap[x]],
                           cache', loc')
  /\ rw' = [rw EXCEPT !.writer = "none"]
  /\ pc' = [pc EXCEPT ![t] = "check"]
  /\ UNCHANGED <<noCache, remote, req, budget, active, ctxDone, sweep, log,
                 result, flagFetches, swept>>

\* The condition of the second live-event fetch:
\* needs live events && cacheEntry.liveEvents.Load() == nil
CheckLive(t) ==
  /\ pc[t] = "check"
  /\ pc' = [pc EXCEPT ![t] =
       IF NeedsLiveEvents(loc[t].type) /\ ~heap[loc[t].entry].live.set
       THEN "liveLazy" ELSE "merge"]
  /\ UNCHANGED <<noCache, remote, req, budget, active, ctxDone, cache, heap,
                 rw, sweep, loc, log, result, flagFetches, swept>>

\* The LiveEventsList call for an entry without live events, and
\* cacheEntry.liveEvents.Store(liveEventsList).
FetchLiveLazy(t) ==
  /\ pc[t] = "liveLazy"
  /\ LET le == remote[User(t)].liveErr
     IN IF le # NilErr THEN ReturnRemoteFailure(t, le, "live")
        ELSE /\ heap' = [heap EXCEPT ![loc[t].entry].live =
                           [set |-> TRUE, events |-> remote[User(t)].live,
                            of |-> User(t), by |-> <<t, Len(log[t])>>]]
             /\ pc' = [pc EXCEPT ![t] = "merge"]
             /\ UNCHANGED <<result, loc>>
  /\ UNCHANGED <<noCache, remote, req, budget, active, ctxDone, cache, rw,
                 sweep, log, flagFetches, swept>>

\* found = false; the flag loop; the live events of the entry, when it has
\* any, merged for every system type.
CachedMerge(T, entry) ==
  LET fl == CachedFlagMerge(T, entry.flags)
  IN IF fl.err # NilErr THEN fl
     ELSE IF entry.live.set THEN LiveEventMerge(fl, T, entry.live.events)
     ELSE fl

\* The users whose records the cached merge read.
CachedSources(T, entry) ==
  {entry.of : f \in {g \in Range(entry.flags) : g.name = FlagNameOf(T)}}
    \cup {entry.live.of : i \in 1..Len(entry.live.events)}

\* The merge over the entry and the final return.
Merge(t) ==
  /\ pc[t] = "merge"
  /\ LET entry == heap[loc[t].entry]
         st == CachedMerge(loc[t].type, entry)
     IN Return(t, Finish(st).config, Finish(st).err,
               CachedSources(loc[t].type, entry), "")
  /\ UNCHANGED <<noCache, remote, req, budget, active, ctxDone, cache, rw,
                 sweep, log, flagFetches, swept>>

\* ------------------------------------------------------ the sweep goroutine
\* case <-ticker.C
SweepTick ==
  /\ sweep = "select"
  /\ sweep' = "lock"
  /\ UNCHANGED <<noCache, remote, req, budget, active, ctxDone, cache, heap,
                 rw, pc, loc, log, result, flagFetches, swept>>

\* s.cacheMutex.Lock()
SweepLock ==
  /\ sweep = "lock"
  /\ rw.writer = "none"
  /\ rw.readers = {}
  /\ rw' = [rw EXCEPT !.writer = "sweep"]
  /\ sweep' = "sweeping"
  /\ UNCHANGED <<noCache, remote, req, budget, active, ctxDone, cache, heap,
                 pc, loc, log, result, flagFetches, swept>>

EvictsActive(s) == active[s]

\* A pass that deletes every entry.
EvictsAll(s) == TRUE

\* if cacheCtx.Err() != nil { delete(s.cache, cacheCtx) }
Evicts(s) == ~active[s]

\* A pass that returns to the select without s.cacheMutex.Unlock().
SweepPassKeepLock ==
  /\ sweep = "sweeping"
  /\ cache' = [s \in {x \in DOMAIN cache : ~Evicts(x)} |-> cache[s]]
  /\ heap' = Collect(heap, cache', loc)
  /\ swept' = swept \cup {s \in Scopes : ~active[s]}
  /\ sweep' = "select"
  /\ UNCHANGED <<noCache, remote, req, budget, active, ctxDone, rw, pc, loc,
                 log, result, flagFetches>>

\* The loop over s.cache and s.cacheMutex.Unlock()
SweepPass ==
  /\ sweep = "sweeping"
  /\ cache' = [s \in {x \in DOMAIN cache : ~Evicts(x)} |-> cache[s]]
  /\ heap' = Collect(heap, cache', loc)
  /\ swept' = swept \cup {s \in Scopes : ~active[s]}
  /\ rw' = [rw EXCEPT !.writer = "none"]
  /\ sweep' = "select"
  /\ UNCHANGED <<noCache, remote, req, budget, active, ctxDone, pc, loc, log,
                 result, flagFetches>>

\* A select without the done case.
SweepStopNever == FALSE /\ UNCHANGED vars

\* case <-ctx.Done(): return
SweepStop ==
  /\ sweep = "select"
  /\ ctxDone
  /\ sweep' = "stopped"
  /\ UNCHANGED <<noCache, remote, req, budget, active, ctxDone, cache, heap,
                 rw, pc, loc, log, result, flagFetches, swept>>

\* -------------------------------------------------------- the environment
\* The ctx of some request is cancelled or runs out.
CancelScope(s) ==
  /\ active[s]
  /\ \E t \in Threads : req[t].scope = s
  /\ active' = [active EXCEPT ![s] = FALSE]
  /\ UNCHANGED <<noCache, remote, req, budget, ctxDone, cache, heap, rw,
                 sweep, pc, loc, log, result, flagFetches, swept>>

\* The context given to NewSatoriPersonalizer is cancelled; only the sweep
\* goroutine looks at it.
Shutdown ==
  /\ ~ctxDone
  /\ ~noCache
  /\ ctxDone' = TRUE
  /\ UNCHANGED <<noCache, remote, req, budget, active, cache, heap, rw,
                 sweep, pc, loc, log, result, flagFetches, swept>>

\* ------------------------------------------------------------ remote data
FlagsA ==
  <<Flag("Hiro-Achievements", <<<<"x", 2>>>>),
    Flag("Hiro-Economy", <<<<"x", 2>>>>)>>
LiveA == <<Event(<<<<"x", 3>>>>)>>

FlagsB ==
  <<Flag("Hiro-Achievements", <<<<"x", 4>>>>),
    Flag("Hiro-Event-Leaderboards", <<<<"z", 4>>>>)>>
LiveB == <<Event(<<<<"x", 5>>>>)>>

\* The first user's flags and live events, each call failing or not.
SmallRemotes ==
  {RemoteOf(fe, FlagsA, le, LiveA) :
     <<fe, le>> \in {p \in RemoteErrs \X RemoteErrs :
                       p[1] = NilErr \/ p[2] = NilErr}}

\* Flag lists and live-event lists that reach every branch of the merge: a
\* flag with an unknown member, with malformed JSON, no flag of the system,
\* events that overwrite each other, an event with an unknown member before
\* a good one and after it, an event for another schema, an empty object.
FlagChoices ==
  {FlagsA,
   <<Flag("Hiro-Achievements", <<<<"x", 2>>, <<"q", 7>>>>),
     Flag("Hiro-Economy", <<<<"x", 2>>>>)>>,
   <<[name |-> "Hiro-Event-Leaderboards", value |-> BadJson],
     Flag("Hiro-Economy", <<<<"x", 2>>>>)>>,
   <<Flag("Hiro-Base", <<<<"x", 2>>>>)>>,
   <<>>}

LiveChoices ==
  {<<>>,
   LiveA,
   <<Event(<<<<"x", 3>>>>), Event(<<<<"x", 4>>>>)>>,
   <<Event(<<<<"y", 5>>, <<"q", 1>>>>), Event(<<<<"x", 3>>>>)>>,
   <<Event(<<<<"x", 3>>>>), Event(<<<<"x", 9>>, <<"q", 1>>>>)>>,
   <<Event(<<<<"z", 6>>>>), [value |-> BadJson]>>,
   <<Event(<<>>)>>}

RichRemotes ==
  {RemoteOf(NilErr, f, NilErr, l) : f \in FlagChoices, l \in LiveChoices}

\* ------------------------------------------------------------------- Init
\* NewSatoriPersonalizer: an empty cache, and the sweep goroutine unless
\* SatoriPersonalizerNoCache() was given.
NewSatoriPersonalizer(nc) ==
  /\ noCache = nc
  /\ cache = <<>>
  /\ heap = <<>>
  /\ rw = [readers |-> {}, writer |-> "none"]
  /\ sweep = IF nc THEN "off" ELSE "select"

Quiet ==
  /\ active = [s \in Scopes |-> TRUE]
  /\ ctxDone = FALSE
  /\ pc = [t \in Threads |-> "idle"]
  /\ loc = [t \in Threads |-> NoLocals]
  /\ log = [t \in Threads |-> <<>>]
  /\ result = [t \in Threads |-> NoResult]
  /\ flagFetches = [s \in Scopes |-> 0]
  /\ swept = {}

RemoteB == RemoteOf(NilErr, FlagsB, NilErr, LiveB)

\* Request t1 is (s1, u1); request t2 has the ctx s and the user u.
Requests(s, u) ==
  [t \in Threads |->
     IF t = "t1" THEN [scope |-> "s1", user |-> "u1"]
     ELSE [scope |-> s, user |-> u]]

\* Two request goroutines that may share the ctx, the user, or both; t1
\* makes MaxCalls calls and t2 one; every remote call succeeds.
Init ==
  /\ \E nc \in BOOLEAN : NewSatoriPersonalizer(nc)
  /\ remote = [u \in Users |->
                 IF u = "u1" THEN RemoteOf(NilErr, FlagsA, NilErr, LiveA)
                 ELSE RemoteB]
  /\ \E s \in Scopes, u \in Users : req = Requests(s, u)
  /\ budget = [t \in Threads |-> IF t = "t1" THEN MaxCalls ELSE 1]
  /\ Quiet

\* Two request goroutines that share the ctx s1, for one user or for two.
RaceInit ==
  /\ \E nc \in BOOLEAN : NewSatoriPersonalizer(nc)
  /\ remote = [u \in Users |->
                 IF u = "u1" THEN RemoteOf(NilErr, FlagsA, NilErr, LiveA)
                 ELSE RemoteB]
  /\ \E u \in Users : req = Requests("s1", u)
  /\ budget = [t \in Threads |-> IF t = "t1" THEN MaxCalls ELSE 1]
  /\ Quiet

\* The same requests, with remote calls for the first user that may fail.
SeqInit ==
  /\ \E nc \in BOOLEAN : NewSatoriPersonalizer(nc)
  /\ \E r \in SmallRemotes :
       remote = [u \in Users |-> IF u = "u1" THEN r ELSE RemoteB]
  /\ \E s \in Scopes, u \in Users : req = Requests(s, u)
  /\ budget = [t \in Threads |-> IF t = "t1" THEN MaxCalls ELSE 1]
  /\ Quiet

\* One request, and every shape of flag and live-event payload.
DataInit ==
  /\ \E nc \in BOOLEAN : NewSatoriPersonalizer(nc)
  /\ \E r \in RichRemotes :
       remote = [u \in Users |-> IF u = "u1" THEN r ELSE RemoteB]
  /\ req = Requests("s2", "u2")
  /\ budget = [t \in Threads |-> IF t = "t1" THEN MaxCalls ELSE 0]
  /\ Quiet

\* One request whose remote calls may fail.
SweepInit ==
  /\ \E nc \in BOOLEAN : NewSatoriPersonalizer(nc)
  /\ \E r \in SmallRemotes :
       remote = [u \in Users |-> IF u = "u1" THEN r ELSE RemoteB]
  /\ req = Requests("s2", "u2")
  /\ budget = [t \in Threads |-> IF t = "t1" THEN MaxCalls ELSE 0]
  /\ Quiet

\* One request whose flag fetch succeeds or fails as a whole.
FairInit ==
  /\ \E nc \in BOOLEAN : NewSatoriPersonalizer(nc)
  /\ \E fe \in {NilErr, ErrUnavailable} :
       remote = [u \in Users |->
                   IF u = "u1" THEN RemoteOf(fe, FlagsA, NilErr, LiveA)
                   ELSE RemoteB]
  /\ req = Requests("s2", "u2")
  /\ budget = [t \in Threads |-> IF t = "t1" THEN MaxCalls ELSE 0]
  /\ Quiet

\* Two request goroutines with the same ctx and user, whose calls overlap
\* with each other and with the sweep; every remote call returns.
LiveInit ==
  /\ \E nc \in BOOLEAN : NewSatoriPersonalizer(nc)
  /\ remote = [u \in Users |->
                 IF u = "u1" THEN RemoteOf(NilErr, FlagsA, NilErr, LiveA)
                 ELSE RemoteB]
  /\ req = Requests("s1", "u1")
  /\ budget = [t \in Threads |-> IF t = "t1" THEN MaxCalls - 1 ELSE 1]
  /\ Quiet

\* The statements of GetValue after the switch on the system type.
Steps(t) ==
  \/ NcFlags(t)
  \/ NcLive(t)
  \/ RLock(t)
  \/ Lookup(t)
  \/ FetchFlags(t)
  \/ FetchLiveEager(t)
  \/ Lock(t)
  \/ Insert(t)
  \/ CheckLive(t)
  \/ FetchLiveLazy(t)
  \/ Merge(t)

GetValue(t) == (\E T \in CallTypes : Call(t, T)) \/ Steps(t)

\* A call that starts only when no other call is in progress.
SeqCall(t) ==
  /\ \A o \in Threads \ {t} : pc[o] = "idle"
  /\ \E T \in CallTypes : Call(t, T)

\* One turn of the sweep goroutine's loop.
Sweep == SweepTick \/ SweepLock \/ SweepPass

\* GetValue calls from several goroutines at once, the sweep, and requests
\* that end, while the personalizer's own context lives on.
Next ==
  \/ \E t \in Threads : GetValue(t)
  \/ Sweep
  \/ \E s \in Scopes : CancelScope(s)

\* GetValue calls one after the other, of requests that stay alive.
SeqNext == \E t \in Threads : SeqCall(t) \/ Steps(t)

\* The calls of one request, the sweep, and both contexts ending.
SweepNext ==
  \/ \E t \in Threads : GetValue(t)
  \/ Sweep
  \/ SweepStop
  \/ \E s \in Scopes : CancelScope(s)
  \/ Shutdown

\* The Go scheduler runs every goroutine that can run, the ticker keeps
\* ticking, a goroutine waiting for cacheMutex gets it once it is free
\* often enough, and a select with the done case ready takes it in the end.
Fairness ==
  /\ \A t \in Threads : WF_vars(Steps(t))
  /\ WF_vars(SweepTick)
  /\ SF_vars(SweepLock)
  /\ WF_vars(SweepPass)
  /\ SF_vars(SweepStop)

\* sync.RWMutex does not starve: a goroutine waiting in RLock or Lock gets
\* the lock when it becomes free often enough.
LockFairness ==
  \A t \in Threads : SF_vars(RLock(t)) /\ SF_vars(Lock(t))

\* Concurrent calls and the sweep, with no context ending.
LiveNext ==
  \/ \E t \in Threads : GetValue(t)
  \/ Sweep

Spec == Init /\ [][Next]_vars
RaceSpec == RaceInit /\ [][Next]_vars
SeqSpec == SeqInit /\ [][SeqNext]_vars
DataSpec == DataInit /\ [][SeqNext]_vars
SweepSpec == SweepInit /\ [][SweepNext]_vars
FairSpec == FairInit /\ [][SweepNext]_vars /\ Fairness
LiveSpec == LiveInit /\ [][LiveNext]_vars /\ Fairness /\ LockFairness

\* ------------------------------------------------ the noCache branch, whole
\* What GetValue returns for system type T and user u with caching disabled:
\* the switch, the noCache branch and the final return, as one function of
\* the remote data.
NoCacheGetValue(T, u) ==
  LET r == remote[u]
      fl == NoCacheFlagMerge(T, FlagsList(u, {FlagNameOf(T)}))
  IN IF FlagNameOf(T) = "" THEN [config |-> NilConfig, err |-> ErrUnknownSystem]
     ELSE IF r.flagsErr # NilErr
     THEN [config |-> NilConfig, err |-> RemoteFailure(r.flagsErr)]
     ELSE IF fl.err # NilErr THEN [config |-> NilConfig, err |-> fl.err]
     ELSE IF ~NeedsLiveEvents(T) THEN Finish(fl)
     ELSE IF r.liveErr # NilErr
     THEN [config |-> NilConfig, err |-> RemoteFailure(r.liveErr)]
     ELSE Finish(LiveEventMerge(fl, T, r.live))

\* ------------------------------------------------------------------ claims
\* The first request has made exactly two calls, both of the system type T.
TwoCallsOf(T) == log["t1"] = <<T, T>>

\* The remote calls of a first call of type T for the first request succeed,
\* so that the call stores an entry.
FirstCallStores(T) ==
  /\ FlagNameOf(T) # ""
  /\ remote["u1"].flagsErr = NilErr
  /\ NeedsLiveEvents(T) => remote["u1"].liveErr = NilErr

\* C1 as stated: with caching enabled and the scope still active, two
\* consecutive GetValue calls of one system type issue at most one FlagsList
\* call for the scope, whatever the first call's outcome.
C1_AtMostOneFetch ==
  \A T \in CallTypes :
    (~noCache /\ active["s1"] /\ TwoCallsOf(T)) => flagFetches["s1"] <= 1

\* C1 amended: with caching enabled and the scope still active, two
\* consecutive GetValue calls of one system type issue at most one FlagsList
\* call for the scope when the remote calls of the first one succeeded.
C1_AtMostOneFetchAfterStore ==
  \A T \in CallTypes :
    (~noCache /\ active["s1"] /\ TwoCallsOf(T) /\ FirstCallStores(T))
      => flagFetches["s1"] <= 1

C1_Witness ==
  /\ ~noCache
  /\ active["s1"]
  /\ TwoCallsOf("Achievements")
  /\ FirstCallStores("Achievements")
  /\ pc["t1"] = "idle"
  /\ result["t1"].called /\ ~result["t1"].config.nil
  /\ flagFetches["s1"] = 1

\* C2 as stated: once a sweep pass has run after a scope became inactive,
\* the scope has no cache entry.
C2_GoneAfterNextSweep == \A s \in swept : s \notin DOMAIN cache

\* C2 amended: every sweep pass leaves no entry of a scope that is inactive
\* at the pass, and an entry of an inactive scope is eventually removed
\* unless the personalizer's own context is done before.
C2_EvictedWhileSweeping ==
  /\ [][(sweep = "sweeping" /\ sweep' = "select")
          => \A s \in Scopes : ~active[s] => s \notin DOMAIN cache']_vars
  /\ \A s \in Scopes :
       (s \in DOMAIN cache /\ ~active[s]) ~> (s \notin DOMAIN cache \/ ctxDone)

C2_Witness ==
  /\ ~noCache
  /\ ~ctxDone
  /\ result["t1"].called /\ ~result["t1"].config.nil
  /\ "s1" \in swept
  /\ "s1" \notin DOMAIN cache

\* What a call returned, as the pair (config, error).
Returned(t) == [config |-> result[t].config, err |-> result[t].err]

\* C3: every GetValue call returns with caching enabled what it returns with
\* caching disabled, whatever was called before.
C3_CacheTransparent ==
  \A t \in Threads :
    result[t].called => Returned(t) = NoCacheGetValue(result[t].type, User(t))

\* C4: the config a call for user u returns is merged only from records that
\* were fetched for u.
C4_OnlyOwnRecords ==
  \A t \in Threads : result[t].called => result[t].src \subseteq {User(t)}

\* The last call of request t has returned, for a known system type.
Done(t) ==
  /\ pc[t] = "idle"
  /\ result[t].called
  /\ FlagNameOf(result[t].type) # ""

\* Both remote calls for the user of request t succeed.
RemoteOk(t) ==
  /\ remote[User(t)].flagsErr = NilErr
  /\ remote[User(t)].liveErr = NilErr

\* The flag records of the system type that request t last asked for.
SelectedFlags(t) == FlagsList(User(t), {FlagNameOf(result[t].type)})

\* A payload that strict decoding into T's config accepts.
StrictOk(T, payload) ==
  /\ payload.syntaxOk
  /\ \A i \in 1..Len(payload.members) : payload.members[i][1] \in Schema(T)

HasUnknownField(T, payload) ==
  /\ payload.syntaxOk
  /\ \E i \in 1..Len(payload.members) : payload.members[i][1] \notin Schema(T)

\* C5: in both cache modes, a selected flag whose payload has a member the
\* system's config does not know makes GetValue return the decode error and
\* a nil config, whatever the live events are.
C5_UnknownFlagFieldFails ==
  \A t \in Threads :
    (/\ Done(t)
     /\ RemoteOk(t)
     /\ SelectedFlags(t) # <<>>
     /\ HasUnknownField(result[t].type, SelectedFlags(t)[1].value))
    => (result[t].config.nil /\ result[t].err = ErrUnknownField)

C5_Witness ==
  /\ ~noCache
  /\ Done("t1")
  /\ result["t1"].type = "Achievements"
  /\ SelectedFlags("t1") # <<>>
  /\ HasUnknownField("Achievements", SelectedFlags("t1")[1].value)
  /\ remote["u1"].live = LiveA
  /\ result["t1"].config.nil
  /\ result["t1"].err = ErrUnknownField

\* The selected flag, if there is one, decodes.
FlagOk(t) ==
  SelectedFlags(t) = <<>> \/ StrictOk(result[t].type, SelectedFlags(t)[1].value)

LiveOf(t) == remote[User(t)].live

\* The member f of a payload, when the payload is well-formed and has it.
Sets(payload, f) ==
  /\ payload.syntaxOk
  /\ \E i \in 1..Len(payload.members) : payload.members[i][1] = f

\* C6: in both cache modes a live-event record that does not decode never
\* makes GetValue fail, and the records after it are still tried: with a
\* record that decodes in the list, the call returns a config, which holds
\* the members of the last such record that no later record touches.
C6_BadLiveEventSkipped ==
  \A t \in Threads :
    (Done(t) /\ RemoteOk(t) /\ FlagOk(t))
    => /\ result[t].err = NilErr
       /\ \A i \in 1..Len(LiveOf(t)) :
            (/\ NeedsLiveEvents(result[t].type)
             /\ StrictOk(result[t].type, LiveOf(t)[i].value)
             /\ \A j \in (i + 1)..Len(LiveOf(t)) :
                  ~StrictOk(result[t].type, LiveOf(t)[j].value))
            => /\ ~result[t].config.nil
               /\ \A k \in 1..Len(LiveOf(t)[i].value.members) :
                    LET m == LiveOf(t)[i].value.members[k]
                    IN (\A j \in (i + 1)..Len(LiveOf(t)) :
                          ~Sets(LiveOf(t)[j].value, m[1]))
                       => result[t].config.val[m[1]] = m[2]

C6_Witness ==
  /\ Done("t1")
  /\ result["t1"].type = "Achievements"
  /\ FlagOk("t1")
  /\ Len(LiveOf("t1")) = 2
  /\ HasUnknownField("Achievements", LiveOf("t1")[1].value)
  /\ StrictOk("Achievements", LiveOf("t1")[2].value)
  /\ result["t1"].err = NilErr
  /\ result["t1"].config.val["x"] = 3

\* The payloads a call for a live-event system type merges, in merge
\* order: the selected flag's, then the live events'.
MergedPayloads(t) ==
  (IF SelectedFlags(t) = <<>> THEN <<>> ELSE <<SelectedFlags(t)[1].value>>)
    \o [i \in 1..Len(LiveOf(t)) |-> LiveOf(t)[i].value]

\* The value of member f in the last payload that decodes and has it; the
\* default when there is none.
RECURSIVE LastApplied(_, _, _, _)
LastApplied(T, payloads, f, default) ==
  IF payloads = <<>> THEN default
  ELSE LET p == payloads[Len(payloads)]
           hits == {i \in 1..Len(p.members) : p.members[i][1] = f}
       IN IF StrictOk(T, p) /\ hits # {}
          THEN p.members[CHOOSE i \in hits : \A j \in hits : j <= i][2]
          ELSE LastApplied(T, SubSeq(payloads, 1, Len(payloads) - 1), f, default)

\* C7: the flag payload is applied first and the live events after it in
\* fetch order, so every field of a returned config has the value of the
\* last successfully applied payload that sets it.
C7_LastAppliedWins ==
  \A t \in Threads :
    (/\ Done(t)
     /\ RemoteOk(t)
     /\ NeedsLiveEvents(result[t].type)
     /\ ~result[t].config.nil)
    => \A f \in Schema(result[t].type) :
         result[t].config.val[f] =
           LastApplied(result[t].type, MergedPayloads(t), f,
                       GetConfig(result[t].type).val[f])

\* The live events are part of the merge of request t's last call: the call
\* asked for them, or with caching an earlier call of the request did.
LiveMerged(t) ==
  IF noCache THEN NeedsLiveEvents(result[t].type)
  ELSE \E i \in 1..Len(log[t]) : NeedsLiveEvents(log[t][i])

SomeLiveDecodes(t) ==
  /\ LiveMerged(t)
  /\ \E i \in 1..Len(LiveOf(t)) : StrictOk(result[t].type, LiveOf(t)[i].value)

\* C8: when no remote call and no flag decode fails, GetValue returns
\* (nil, nil) if no flag matched and no live event decoded, and a config
\* exactly when some flag or live-event record decoded into it.
C8_NilUnlessDecoded ==
  \A t \in Threads :
    (Done(t) /\ RemoteOk(t) /\ FlagOk(t))
    => /\ result[t].err = NilErr
       /\ result[t].config.nil <=> (SelectedFlags(t) = <<>> /\ ~SomeLiveDecodes(t))

C8_Witness ==
  /\ Done("t1")
  /\ result["t1"].type = "Achievements"
  /\ SelectedFlags("t1") = <<>>
  /\ LiveOf("t1") # <<>>
  /\ ~SomeLiveDecodes("t1")
  /\ result["t1"].config.nil
  /\ result["t1"].err = NilErr

\* What GetValue returns when a remote call fails with e, as C9 states it.
Failed(t, e) ==
  /\ e # NilErr
  /\ result[t].config.nil
  /\ result[t].err =
       IF \E i \in 1..Len(e) : e[i] = "404 status code" THEN NilErr ELSE e

\* No other request uses the ctx of request t.
OwnScope(t) == \A o \in Threads \ {t} : Scope(o) # Scope(t)

RECURSIVE Sum(_, _)
Sum(f, S) ==
  IF S = {} THEN 0 ELSE LET x == CHOOSE y \in S : TRUE IN f[x] + Sum(f, S \ {x})

\* The calls with a known system type that request t has started.
KnownCalls(t) ==
  Cardinality({i \in 1..Len(log[t]) : FlagNameOf(log[t][i]) # ""})

\* C9: in both cache modes a call whose flag fetch or live-event fetch
\* fails returns (nil, nil) for a not-found failure and (nil, that error)
\* for any other one; a failing fetch always ends the call, and no fetch is
\* repeated within a call.
C9_RemoteFailureReturned ==
  /\ \A t \in Threads :
       /\ result[t].via = "flags" => Failed(t, remote[User(t)].flagsErr)
       /\ result[t].via = "live" => Failed(t, remote[User(t)].liveErr)
       /\ (/\ Done(t)
           /\ noCache \/ OwnScope(t)
           /\ remote[User(t)].flagsErr # NilErr)
          => result[t].via = "flags"
       /\ (/\ Done(t)
           /\ noCache \/ OwnScope(t)
           /\ NeedsLiveEvents(result[t].type)
           /\ remote[User(t)].liveErr # NilErr)
          => result[t].via = "live"
  /\ \A s \in Scopes :
       flagFetches[s] <=
         Sum([t \in Threads |-> KnownCalls(t)], {t \in Threads : Scope(t) = s})

C9_Witness ==
  /\ ~noCache
  /\ log["t1"] = <<"Economy", "Achievements">>
  /\ Done("t1")
  /\ "s1" \in DOMAIN cache
  /\ result["t1"].via = "live"
  /\ result["t1"].config.nil
  /\ result["t1"].err = ErrUnavailable

\* C10: with caching disabled the cache stays empty, and every call with a
\* known system type issues its own FlagsList call.
C10_NoCacheFetchesEveryCall ==
  noCache =>
    /\ DOMAIN cache = {}
    /\ DOMAIN heap = {}
    /\ \A s \in Scopes :
         flagFetches[s] =
           Sum([t \in Threads |->
                  IF pc[t] = "ncFlags" THEN KnownCalls(t) - 1 ELSE KnownCalls(t)],
               {t \in Threads : Scope(t) = s})

C10_Witness ==
  /\ noCache
  /\ OwnScope("t1")
  /\ log["t1"] = <<"Economy", "Economy">>
  /\ Done("t1")
  /\ flagFetches["s1"] = 2
  /\ DOMAIN cache = {}

\* The liveEvents value of the entry that the cache holds for scope s.
ScopeLive(c, h, s) == h[c[s]].live

\* C11: per scope the cached liveEvents value is written once: while the
\* scope has a cache entry, a value that is set is neither stored over by
\* another fetch nor seen as unset again, under every interleaving of calls.
C11_LiveEventsWriteOnce ==
  [][\A s \in Scopes :
       (/\ s \in DOMAIN cache
        /\ s \in DOMAIN cache'
        /\ ScopeLive(cache, heap, s).set)
       => ScopeLive(cache', heap', s) = ScopeLive(cache, heap, s)]_vars

\* Request t starts a call with a system type outside the known ones.
UnknownCall(t) ==
  /\ Len(log'[t]) = Len(log[t]) + 1
  /\ log'[t][Len(log'[t])] \notin KnownTypes

\* C12: a GetValue call with an unknown system type returns an error and a
\* nil config at once: it issues no remote call and neither reads nor
\* changes the cache (no lock taken, no entry read, no fetch counted).
C12_UnknownTypeFailsAtOnce ==
  [][\A t \in Threads :
       UnknownCall(t)
       => /\ pc'[t] = "idle"
          /\ result'[t].called
          /\ result'[t].type \notin KnownTypes
          /\ result'[t].config.nil
          /\ result'[t].err = ErrUnknownSystem
          /\ loc'[t] = loc[t]
          /\ UNCHANGED <<cache, heap, rw, flagFetches>>]_vars

C12_Witness ==
  /\ ~noCache
  /\ log["t1"] = <<"Economy", "Unknown">>
  /\ pc["t1"] = "idle"
  /\ "s1" \in DOMAIN cache
  /\ flagFetches["s1"] = 1
  /\ result["t1"].type = "Unknown"
  /\ result["t1"].config.nil
  /\ result["t1"].err = ErrUnknownSystem

\* C13: the sweep stops only once the construction context is done; until
\* then another pass always comes; after the signal the sweep eventually
\* stops, and once stopped it stays stopped and never holds the cache lock
\* again.
C13_SweepRunsUntilShutdown ==
  /\ [][(sweep # "stopped" /\ sweep' = "stopped") => ctxDone]_vars
  /\ [][sweep = "stopped" => (sweep' = "stopped" /\ rw'.writer # "sweep")]_vars
  /\ [](~noCache => <>(sweep = "sweeping" \/ ctxDone))
  /\ ctxDone ~> (sweep = "stopped" /\ rw.writer # "sweep")

C13_Witness ==
  /\ ctxDone
  /\ sweep = "stopped"
  /\ rw.writer = "none"
  /\ swept # {}
  /\ "s1" \in DOMAIN cache

\* Request t is at a FlagsList or LiveEventsList call.
InRemoteCall(t) == pc[t] \in {"ncFlags", "ncLive", "flags", "liveEager", "liveLazy"}

HoldsLock(t) == t \in rw.readers \/ rw.writer = t

\* C14: no goroutine is at a remote call while it holds cacheMutex in read
\* or write mode; a call holds the write lock only at the map insert and the
\* read lock only at the lookup, and the sweep holds the write lock only
\* during the deletions of a pass.
C14_NoRemoteCallUnderLock ==
  /\ \A t \in Threads :
       /\ ~(InRemoteCall(t) /\ HoldsLock(t))
       /\ rw.writer = t => pc[t] = "insert"
       /\ t \in rw.readers => pc[t] = "lookup"
  /\ rw.writer = "sweep" <=> sweep = "sweeping"
  /\ rw.writer # "none" => rw.readers = {}

C14_Witness ==
  /\ pc["t1"] = "liveLazy"
  /\ rw.writer = "t2"
  /\ pc["t2"] = "insert"
  /\ Scope("t1") = Scope("t2")

\* Request t's call does its map insert in this step.
Inserts(t) == pc[t] = "insert" /\ pc'[t] = "check"

\* C15: a call that missed at the lookup fetches on its own: its FlagsList
\* call never waits for another call, and counts for its scope. The map holds
\* one entry per scope, an entry built by a call on that scope; every insert
\* makes the inserting call's entry the scope's entry, and nothing but an
\* insert or a sweep pass changes the map, so after racing first accesses the
\* scope's entry is the one inserted last.
C15_RacingMissesLastInsertWins ==
  /\ [](\A t \in Threads : pc[t] = "flags" => ENABLED FetchFlags(t))
  /\ [](\A s \in DOMAIN cache :
          /\ cache[s] \in DOMAIN heap
          /\ \E t \in Threads : Scope(t) = s /\ cache[s][1] = t)
  /\ [][\A t \in Threads :
          /\ (pc[t] = "flags" /\ pc'[t] # "flags")
             => flagFetches'[Scope(t)] = flagFetches[Scope(t)] + 1
          /\ Inserts(t)
             => /\ cache'[Scope(t)] = <<t, Len(log[t])>>
                /\ \A s \in DOMAIN cache \ {Scope(t)} :
                     s \in DOMAIN cache' /\ cache'[s] = cache[s]]_vars
  /\ [][cache' # cache
          => \/ \E t \in Threads : Inserts(t)
             \/ sweep = "sweeping"]_vars

C15_Witness ==
  /\ ~noCache
  /\ active["s1"]
  /\ Scope("t2") = "s1"
  /\ Len(log["t1"]) = 1 /\ Len(log["t2"]) = 1
  /\ pc["t1"] = "idle" /\ pc["t2"] = "idle"
  /\ flagFetches["s1"] = 2
  /\ cache = [s \in {"s1"} |-> <<"t2", 1>>]
  /\ DOMAIN heap = {<<"t2", 1>>}

\* C16: a sweep pass runs under the write lock and leaves in the map exactly
\* the entries of the scopes that are active at the pass, unchanged; no step
\* of any operation removes the entry of an active scope.
C16_SweepRemovesExactlyInactive ==
  /\ [][(sweep = "sweeping" /\ sweep' # "sweeping")
          => /\ rw.writer = "sweep"
             /\ DOMAIN cache' = {s \in DOMAIN cache : active[s]}
             /\ \A s \in DOMAIN cache' : cache'[s] = cache[s]]_vars
  /\ [][\A s \in DOMAIN cache : active[s] => s \in DOMAIN cache']_vars

\* A pass has removed the entry of the ended scope s1 while a call of the
\* scope still works on that entry.
C16_Witness ==
  /\ sweep = "select"
  /\ rw.writer = "none"
  /\ ~active["s1"]
  /\ "s1" \in swept
  /\ "s1" \notin DOMAIN cache
  /\ pc["t1"] = "merge"
  /\ loc["t1"].entry \in DOMAIN heap

\* The system types that C17 names as taking live events.
TakesLiveEvents(T) == T \in {"EventLeaderboards", "Achievements"}

\* Request t is at a LiveEventsList call of the cached branch.
AtLiveFetch(t) == pc[t] \in {"liveEager", "liveLazy"}

\* C17: with caching and non-overlapping calls on active scopes, only calls
\* for EventLeaderboards or Achievements fetch live events, and only while
\* the scope's entry holds none; a fetch for an existing entry stores into
\* that entry; such a call that no remote failure ended leaves the scope's
\* entry with live events, stored by a call of one of the two types.
C17_LiveEventsFetchedOnceByLiveTypes ==
  ~noCache =>
    /\ \A t \in Threads :
         /\ AtLiveFetch(t)
            => /\ TakesLiveEvents(loc[t].type)
               /\ Scope(t) \in DOMAIN cache
                    => ~ScopeLive(cache, heap, Scope(t)).set
         /\ pc[t] = "liveEager" => Scope(t) \notin DOMAIN cache
         /\ pc[t] = "liveLazy"
            => Scope(t) \in DOMAIN cache /\ loc[t].entry = cache[Scope(t)]
         /\ (Done(t) /\ TakesLiveEvents(result[t].type) /\ result[t].via = "")
            => /\ Scope(t) \in DOMAIN cache
               /\ ScopeLive(cache, heap, Scope(t)).set
    /\ \A s \in DOMAIN cache :
         ScopeLive(cache, heap, s).set
         => LET by == ScopeLive(cache, heap, s).by
            IN TakesLiveEvents(log[by[1]][by[2]])

C17_Witness ==
  /\ ~noCache
  /\ log["t1"] = <<"Economy", "Achievements">>
  /\ Done("t1")
  /\ result["t1"].via = ""
  /\ cache["s1"] = <<"t1", 1>>
  /\ ScopeLive(cache, heap, "s1").set
  /\ ScopeLive(cache, heap, "s1").by = <<"t1", 2>>

\* The live-event list without the records whose decode fails.
WithoutFailing(T, events) == SelectSeq(events, LAMBDA e : StrictOk(T, e.value))

\* C18: a live-event record whose decode fails leaves the config as it was:
\* a call for a live-event system type returns what the merge of the same
\* flag and of the live events without the failing records gives.
C18_SkippedEventLeavesConfig ==
  \A t \in Threads :
    (/\ Done(t)
     /\ RemoteOk(t)
     /\ FlagOk(t)
     /\ TakesLiveEvents(result[t].type))
    => Returned(t) =
         Finish(LiveEventMerge(
                  NoCacheFlagMerge(result[t].type, SelectedFlags(t)),
                  result[t].type,
                  WithoutFailing(result[t].type, LiveOf(t))))

\* C19: with fair scheduling and remote calls that return, every GetValue
\* call that has started returns, and the sweep always releases the lock it
\* holds, whatever other calls and sweep passes run at the same time.
C19_NothingBlocksForever ==
  /\ \A t \in Threads : (pc[t] # "idle") ~> (pc[t] = "idle")
  /\ (rw.writer = "sweep") ~> (rw.writer # "sweep")

\* Both calls wait for the write lock while the sweep holds it.
C19_Witness ==
  /\ rw.writer = "sweep"
  /\ pc["t1"] = "lock"
  /\ pc["t2"] = "lock"

\* Request t's call ends in this step at the flag fetch or the eager
\* live-event fetch of a cache miss.
MissFails(t) == pc[t] \in {"flags", "liveEager"} /\ pc'[t] = "idle"

\* C20: with caching, a call that missed at the lookup and whose flag fetch
\* or eager live-event fetch fails changes neither the map nor any entry and
\* keeps nothing it fetched; after such a first call on a scope of its own,
\* the scope has no entry.
C20_FailedMissLeavesCache ==
  /\ [][\A t \in Threads :
          MissFails(t)
          => /\ result'[t].via \in {"flags", "live"}
             /\ result'[t].config.nil
             /\ loc'[t] = NoLocals
             /\ UNCHANGED <<cache, heap>>]_vars
  /\ [](~noCache =>
          \A t \in Threads :
            (/\ Done(t)
             /\ Len(log[t]) = 1
             /\ OwnScope(t)
             /\ result[t].via # "")
            => /\ Scope(t) \notin DOMAIN cache
               /\ \A e \in DOMAIN heap : e[1] # t)

\* The first call on s1 failed at the eager live-event fetch after its flags
\* had been fetched; s1 has no entry and the entry of s2 is in place.
C20_Witness ==
  /\ ~noCache
  /\ log["t1"] = <<"Achievements">>
  /\ Done("t1")
  /\ result["t1"].via = "live"
  /\ flagFetches["s1"] = 1
  /\ "s1" \notin DOMAIN cache
  /\ "s2" \in DOMAIN cache
  /\ cache["s2"] \in DOMAIN heap

====
